---- MODULE Spec2Model ----
(***************************************************************************)
(* A model of nicegui_router: the theme builder (theme.py), the names the  *)
(* package binds (__init__.py), the example route files and the example    *)
(* counter component.                                                      *)
(***************************************************************************)
EXTENDS Integers, Sequences, FiniteSets, TLC

\* ------------------------------------------------------------------ bounds
\* Builds (executions of `with t.build():`) per behaviour.
MaxBuilds == 2
\* Statements the wrapped page block runs before it ends or raises.
MaxBlock == 1
\* Entries callers append to stored lists per behaviour.
MaxAppends == 1
\* Builds per behaviour in which callers append to the stored lists.
MaxSharedBuilds == 1
\* Clicks handled per counter component.
MaxClicks == 3

\* ------------------------------------------------------------- theme.py data
\* The two ThemeBuild objects of the example (module level, one per route file).
Insts == {"t1", "t2"}
Builds == 1..MaxBuilds
SharedBuilds == 1..MaxSharedBuilds
AllBuilds == Builds \cup SharedBuilds

\* The list parameters of ThemeBuild.__init__.
Fields == {"css", "head", "body", "body_close"}

\* An argument that the call leaves out.
Absent == <<"absent">>
\* The list object a default `= []` is bound to when the def statement runs:
\* one object per parameter, made once.
DefaultList(f) == <<"default", f>>
\* A list object the caller owns and passes in.
CallerList(f) == <<"caller", f>>
\* A list object made inside one constructor call (never made by __init__ as written).
OwnList(self, f) == <<"own", self, f>>
ListIds == {DefaultList(f) : f \in Fields} \cup {CallerList(f) : f \in Fields}
             \cup {OwnList(t, f) : t \in Insts, f \in Fields}

\* The contents of the lists callers pass.
CallerContents(f) ==
  CASE f = "css" -> <<"c1", "c2">>
    [] f = "head" -> <<"h1">>
    [] f = "body" -> <<"b1", "b2">>
    [] OTHER -> <<"x1", "x2">>

\* font=None is <<>>, a string s is <<s>>.
NoneFont == <<>>
Fonts == {NoneFont, <<"">>, <<"Lato">>}

\* A colour scheme is a dict: a set of <<key, value>> pairs.
ExampleTheme == {<<"primary", "#FF5733">>, <<"secondary", "#33FF57">>, <<"accent", "#3357FF">>}
Themes == {ExampleTheme, ExampleTheme \cup {<<"dark", "#121212">>}}

\* __init__ with `css=None` and `self.css = css or []`: a list of its own per object.
ThemeBuild_fresh(self, theme, font, css, head, body, body_close) ==
  [theme |-> theme, font |-> font,
   css |-> IF css = Absent THEN OwnList(self, "css") ELSE css,
   head |-> IF head = Absent THEN OwnList(self, "head") ELSE head,
   body |-> IF body = Absent THEN OwnList(self, "body") ELSE body,
   body_close |-> IF body_close = Absent THEN OwnList(self, "body_close") ELSE body_close]

\* ThemeBuild.__init__: every argument is stored as given, a left-out list
\* argument is the parameter's default object.
ThemeBuild(self, theme, font, css, head, body, body_close) ==
  [theme |-> theme, font |-> font,
   css |-> IF css = Absent THEN DefaultList("css") ELSE css,
   head |-> IF head = Absent THEN DefaultList("head") ELSE head,
   body |-> IF body = Absent THEN DefaultList("body") ELSE body,
   body_close |-> IF body_close = Absent THEN DefaultList("body_close") ELSE body_close]

\* The calls made on the page: ui.add_css(s), ui.add_head_html(s),
\* ui.add_body_html(s), ui.colors(**kw), ui.run_javascript(s).
Call(op, arg) == [op |-> op, arg |-> arg, kw |-> {}]
Colors(kw) == [op |-> "colors", arg |-> <<>>, kw |-> kw]
\* Control passes to the block of the with statement.
Yield == [op |-> "yield", arg |-> <<>>, kw |-> {}]
\* One statement of the wrapped block.
Stmt == [op |-> "stmt", arg |-> <<>>, kw |-> {}]

AutofillCss == <<"input:-webkit-autofill { -webkit-box-shadow: 0 0 0 1000px white inset !important; box-shadow: 0 0 0 1000px white inset !important; -webkit-text-fill-color: black !important; }">>
AosLink == <<"<link href=\"https://cdn.jsdelivr.net/npm/aos@2.3.1/dist/aos.css\" rel=\"stylesheet\">">>
AosScript == <<"<script src=\"https://cdn.jsdelivr.net/npm/aos@2.3.1/dist/aos.js\"></script>">>
AosInit == <<"AOS.init();">>
\* The f-strings: the literal pieces around the interpolated font.
FontLink(font) == <<"<link href=\"https://fonts.googleapis.com/css2?family=", font[1], "\" rel=\"stylesheet\">">>
FontStyle(font) == <<"<style> body { font-family: '", font[1], "', sans-serif; } </style>">>

\* `if self.font:`
Truthy(font) == font # NoneFont /\ font[1] # ""

\* `for x in list: call(x)`, from index i on.
RECURSIVE ForEach(_, _, _)
ForEach(op, list, i) ==
  IF i > Len(list) THEN <<>>
  ELSE <<Call(op, <<list[i]>>)>> \o ForEach(op, list, i + 1)

\* Lines 36-45: the autofill rule and the AOS stylesheet and script.
Preamble ==
  <<Call("add_css", AutofillCss), Call("add_head_html", AosLink),
    Call("add_body_html", AosScript)>>

\* Lines 47-53: the three loops over the stored lists, read as they are now.
CustomTags(self, h) ==
  ForEach("add_css", h[self.css], 1)
    \o ForEach("add_head_html", h[self.head], 1)
    \o ForEach("add_body_html", h[self.body], 1)

\* Lines 55-63, with `is not None` in place of the truth test.
FontTags_notnone(self) ==
  IF self.font # NoneFont
  THEN <<Call("add_head_html", FontLink(self.font)),
         Call("add_head_html", FontStyle(self.font))>>
  ELSE <<>>

\* Lines 55-63: the two font tags.
FontTags(self) ==
  IF Truthy(self.font)
  THEN <<Call("add_head_html", FontLink(self.font)),
         Call("add_head_html", FontStyle(self.font))>>
  ELSE <<>>

\* Line 65 with a default filled in for a key the theme lacks.
ThemeColors_defaults(self) ==
  <<Colors(self.theme
           \cup (IF \E kv \in self.theme : kv[1] = "dark" THEN {}
                 ELSE {<<"dark", "#1d1d1d">>}))>>

\* Line 65: ui.colors(**self.theme).
ThemeColors(self) == <<Colors(self.theme)>>

\* build up to the yield with AOS.init() run during set-up.
build_enter_earlyinit(self, h) ==
  [emit |-> Preamble \o CustomTags(self, h) \o FontTags(self) \o ThemeColors(self)
            \o <<Call("run_javascript", AosInit)>>,
   self |-> self, heap |-> h]

\* build up to the yield with the css loop written as
\* `while self.css: ui.add_css(self.css.pop(0))`.
build_enter_pop(self, h) ==
  [emit |-> Preamble \o CustomTags(self, h) \o FontTags(self) \o ThemeColors(self),
   self |-> self, heap |-> [h EXCEPT ![self.css] = <<>>]]

\* build up to the yield (lines 34-65): what it emits, and the object and the
\* list objects after it. It assigns no field and changes no list.
build_enter(self, h) ==
  [emit |-> Preamble \o CustomTags(self, h) \o FontTags(self) \o ThemeColors(self),
   self |-> self, heap |-> h]

\* build after the yield with AOS.init() run before the body_close loop.
build_exit_initfirst(self, h) ==
  [emit |-> <<Call("run_javascript", AosInit)>>
            \o ForEach("add_body_html", h[self.body_close], 1),
   self |-> self, heap |-> h]

\* build after the yield, the block having ended normally.
build_exit(self, h) ==
  [emit |-> ForEach("add_body_html", h[self.body_close], 1)
            \o <<Call("run_javascript", AosInit)>>,
   self |-> self, heap |-> h]

\* build when the block raised e, had the yield been wrapped in try/finally.
build_throw_finally(self, h, e) ==
  [emit |-> ForEach("add_body_html", h[self.body_close], 1)
            \o <<Call("run_javascript", AosInit)>>,
   raise |-> e, self |-> self, heap |-> h]

\* build when the block raised e: contextmanager throws e into the generator at
\* the yield, nothing encloses the yield, so e leaves the generator and the with
\* statement as it came.
NoExc == "none"
Exceptions == {"ValueError", "StopIteration"}
build_throw(self, h, e) ==
  [emit |-> <<>>, raise |-> e, self |-> self, heap |-> h]

\* inst: the fields of each ThemeBuild; heap: the contents of each list object.
\* pc, of, log, exc: per build, where it is (idle, block, done, raised), the
\*   object it builds, the calls and block statements of its page in order,
\*   and the exception its caller got.
\* ctor, thrown, appended, seen: history, for the properties: the constructor
\*   calls, the exception each block raised, the appends made and the appends
\*   made before each build began.
\* app, dir: the application's import and the route files of its directory;
\*   rpc, pending, visited, registered, failed: the loader's position, the files
\*   left and executed, the routes registered and the imports that raised.
\* slot, label, dirty: per counter component, the value use_state holds, the
\*   count its button shows and whether a re-render is due; clicks, stale:
\*   history: clicks handled, and whether one was handled with a re-render due.
VARIABLES inst, ctor, heap, pc, of, log, exc, thrown, appended, seen,
          app, dir, rpc, pending, visited, registered, failed,
          slot, label, dirty, clicks, stale

themeVars == <<inst, ctor, heap, pc, of, log, exc, thrown, appended, seen>>
routeVars == <<app, dir, rpc, pending, visited, registered, failed>>
counterVars == <<slot, label, dirty, clicks, stale>>
vars == <<themeVars, routeVars, counterVars>>

\* The argument tuples of a constructor call.
CtorCalls ==
  [theme : Themes, font : Fonts,
   css : {Absent, CallerList("css")}, head : {Absent, CallerList("head")},
   body : {Absent, CallerList("body")}, body_close : {Absent, CallerList("body_close")}]
\* customTheme = theme({...}, font="Lato")
ExampleCall ==
  [theme |-> ExampleTheme, font |-> <<"Lato">>, css |-> Absent, head |-> Absent,
   body |-> Absent, body_close |-> Absent]
AllGivenCall ==
  [theme |-> ExampleTheme, font |-> NoneFont, css |-> CallerList("css"),
   head |-> CallerList("head"), body |-> CallerList("body"),
   body_close |-> CallerList("body_close")]

New(self, a) == ThemeBuild(self, a.theme, a.font, a.css, a.head, a.body, a.body_close)

InitHeap ==
  [l \in ListIds |-> IF l[1] = "caller" THEN CallerContents(l[2]) ELSE <<>>]

MixedCall ==
  [theme |-> ExampleTheme, font |-> <<"Lato">>, css |-> Absent,
   head |-> CallerList("head"), body |-> Absent,
   body_close |-> CallerList("body_close")]

\* The state once the route modules have constructed their themes.
ThemeStart ==
  /\ inst = [t \in DOMAIN ctor |-> New(t, ctor[t])]
  /\ heap = InitHeap
  /\ pc = [b \in AllBuilds |-> "idle"]
  /\ of = [b \in AllBuilds |-> "t1"]
  /\ log = [b \in AllBuilds |-> <<>>]
  /\ exc = [b \in AllBuilds |-> NoExc]
  /\ thrown = [b \in AllBuilds |-> NoExc]
  /\ appended = <<>>
  /\ seen = [b \in AllBuilds |-> {}]

\* One theme object made by any constructor call, or two made by the
\* example's call or by a call that gives every list.
InitTheme ==
  /\ \/ ctor \in [{"t1"} -> CtorCalls]
     \/ ctor \in [Insts -> {ExampleCall, AllGivenCall}]
  /\ ThemeStart

\* Two theme objects, each with list arguments left out.
InitShared ==
  /\ ctor \in [Insts -> {ExampleCall, MixedCall}]
  /\ ThemeStart

NStmts(b) == Len(SelectSeq(log[b], LAMBDA ev : ev.op = "stmt"))

\* `with t.build():` runs build up to its yield.
Enter(b, t) ==
  /\ pc[b] = "idle"
  /\ \A c \in AllBuilds : c < b => pc[c] # "idle"
  /\ LET r == build_enter(inst[t], heap) IN
       /\ log' = [log EXCEPT ![b] = r.emit \o <<Yield>>]
       /\ inst' = [inst EXCEPT ![t] = r.self]
       /\ heap' = r.heap
  /\ pc' = [pc EXCEPT ![b] = "block"]
  /\ of' = [of EXCEPT ![b] = t]
  /\ seen' = [seen EXCEPT ![b] = {appended[i] : i \in 1..Len(appended)}]
  /\ UNCHANGED <<ctor, exc, thrown, appended>>
  /\ UNCHANGED <<routeVars, counterVars>>

\* The wrapped block runs one statement.
BlockStep(b) ==
  /\ pc[b] = "block"
  /\ NStmts(b) < MaxBlock
  /\ log' = [log EXCEPT ![b] = Append(@, Stmt)]
  /\ UNCHANGED <<inst, ctor, heap, pc, of, exc, thrown, appended, seen>>
  /\ UNCHANGED <<routeVars, counterVars>>

\* The wrapped block ends; build runs from the yield to its end.
Exit(b) ==
  /\ pc[b] = "block"
  /\ LET r == build_exit(inst[of[b]], heap) IN
       /\ log' = [log EXCEPT ![b] = @ \o r.emit]
       /\ inst' = [inst EXCEPT ![of[b]] = r.self]
       /\ heap' = r.heap
  /\ pc' = [pc EXCEPT ![b] = "done"]
  /\ UNCHANGED <<ctor, of, exc, thrown, appended, seen>>
  /\ UNCHANGED <<routeVars, counterVars>>

\* The wrapped block raises e.
Raise(b, e) ==
  /\ pc[b] = "block"
  /\ LET r == build_throw(inst[of[b]], heap, e) IN
       /\ log' = [log EXCEPT ![b] = @ \o r.emit]
       /\ inst' = [inst EXCEPT ![of[b]] = r.self]
       /\ heap' = r.heap
       /\ exc' = [exc EXCEPT ![b] = r.raise]
  /\ thrown' = [thrown EXCEPT ![b] = e]
  /\ pc' = [pc EXCEPT ![b] = "raised"]
  /\ UNCHANGED <<ctor, of, appended, seen>>
  /\ UNCHANGED <<routeVars, counterVars>>

\* A caller appends an entry to the list a ThemeBuild holds: t.f.append(e).
AppendEntries == {"z"}
AppendTo(t, f, e) ==
  /\ Len(appended) < MaxAppends
  /\ heap' = [heap EXCEPT ![inst[t][f]] = Append(@, e)]
  /\ appended' = Append(appended, <<t, f, e>>)
  /\ UNCHANGED <<inst, ctor, pc, of, log, exc, thrown, seen>>
  /\ UNCHANGED <<routeVars, counterVars>>


\* --------------------------------------- __init__.py and the example's imports
\* The names the package binds: the names __init__.py imports into it, and
\* the submodules those import statements load, which Python sets as
\* attributes of the package.
Bound ==
  {"NiceGUIConfig", "OpenAPIArgs", "Router",
   "RouteDecorator", "create_access_token", "get", "post", "put", "delete", "page",
   "get_auth", "post_auth", "put_auth", "delete_auth", "ws", "ws_auth",
   "ColorScheme", "ThemeBuild", "use_state",
   "dynamic_router", "route_decorator", "theme", "reactive"}

\* `from nicegui_router import n1, n2, ...`: the names are looked up in order,
\* the first one the package does not bind raises ImportError. The result is
\* the index of that name, 0 when every name is bound.
RECURSIVE ImportFrom(_, _)
ImportFrom(names, i) ==
  IF i > Len(names) THEN 0
  ELSE IF names[i] \notin Bound THEN i
  ELSE ImportFrom(names, i + 1)

\* example/main.py line 1.
MainImports == <<"Server">>
\* An application that uses the loader under the name the package binds.
RouterImports == <<"Router">>
MainModule(imports) == IF imports = MainImports THEN "example/main.py" ELSE "app.py"

\* A route file: where it lies under the routes directory (without .py), the
\* names it imports from the package, its decorated function and the path the
\* decorator was given (explicit FALSE: none).
IndexPy ==
  [rel |-> <<"index">>, imports |-> <<"page", "ui">>, func |-> "home",
   explicit |-> TRUE, path |-> <<>>]
AboutPy ==
  [rel |-> <<"about">>, imports |-> <<"page", "theme", "ui">>, func |-> "about",
   explicit |-> FALSE, path |-> <<>>]
CounterPy ==
  [rel |-> <<"counter">>, imports |-> <<"page", "ui", "theme", "component", "use_state">>,
   func |-> "counter", explicit |-> FALSE, path |-> <<>>]
ExampleFiles == {IndexPy, AboutPy, CounterPy}
\* Route files that import only what the package binds.
OtherFiles ==
  {[rel |-> <<"ping">>, imports |-> <<"page">>, func |-> "ping",
    explicit |-> FALSE, path |-> <<>>],
   [rel |-> <<"admin", "users">>, imports |-> <<"page", "use_state">>, func |-> "users",
    explicit |-> FALSE, path |-> <<>>],
   [rel |-> <<"hello">>, imports |-> <<"get">>, func |-> "hello",
    explicit |-> TRUE, path |-> <<"hi">>]}
RouteFiles == ExampleFiles \cup OtherFiles
ModuleOf(f) == <<"example/routes">> \o f.rel

\* The targets the home page navigates to: /about and /counter.
NavTargets == {<<"about">>, <<"counter">>}

\* The path a decorated function is registered at: the explicit path when one
\* is given, else the file's place under the routes directory.
RoutePath(f) == IF f.explicit THEN f.path ELSE f.rel

\* Executing a route module: its import statement, then the decorator.
exec_module(f) ==
  LET bad == ImportFrom(f.imports, 1) IN
    IF bad # 0
    THEN [ok |-> FALSE, error |-> <<ModuleOf(f), f.imports[bad]>>, routes |-> {}]
    ELSE [ok |-> TRUE, error |-> <<>>, routes |-> {[path |-> RoutePath(f), func |-> f.func]}]

InitRoutes ==
  /\ app \in {MainImports, RouterImports}
  /\ dir \in SUBSET RouteFiles
  /\ rpc = "app_import"
  /\ pending = {}
  /\ visited = {}
  /\ registered = {}
  /\ failed = {}

RoutesIdle ==
  /\ app = MainImports /\ dir = {} /\ rpc = "off"
  /\ pending = {} /\ visited = {} /\ registered = {} /\ failed = {}

\* The application module runs: its import, then the server is constructed
\* with routes_dir and begins to walk it.
AppStart ==
  /\ rpc = "app_import"
  /\ LET bad == ImportFrom(app, 1) IN
       IF bad # 0
       THEN /\ rpc' = "error"
            /\ failed' = failed \cup {<<<<MainModule(app)>>, app[bad]>>}
            /\ UNCHANGED pending
       ELSE /\ rpc' = "walk"
            /\ pending' = dir
            /\ UNCHANGED failed
  /\ UNCHANGED <<app, dir, visited, registered>>
  /\ UNCHANGED <<themeVars, counterVars>>

\* The loader executes the next route file it finds; an exception raised by
\* the file ends the load.
LoadFile(f) ==
  /\ rpc = "walk"
  /\ f \in pending
  /\ LET r == exec_module(f) IN
       /\ registered' = registered \cup r.routes
       /\ failed' = IF r.ok THEN failed ELSE failed \cup {r.error}
       /\ rpc' = IF r.ok THEN "walk" ELSE "error"
  /\ pending' = pending \ {f}
  /\ visited' = visited \cup {f}
  /\ UNCHANGED <<app, dir>>
  /\ UNCHANGED <<themeVars, counterVars>>

\* Every file of the directory has been executed.
LoadDone ==
  /\ rpc = "walk"
  /\ pending = {}
  /\ rpc' = "done"
  /\ UNCHANGED <<app, dir, pending, visited, registered, failed>>
  /\ UNCHANGED <<themeVars, counterVars>>

\* --------------------------------------------- the example counter component
\* The component instances: customCounter() runs once per page visit.
Comps == {"k1", "k2"}
\* A state slot or a label that does not exist yet.
Unset == <<>>

\* use_state(initial) inside a component: the component's stored value, which
\* is the initial value on the first render.
use_state(stored, initial) == IF stored = Unset THEN <<initial>> ELSE stored

\* customCounter's body with the click handler passing count on unchanged.
on_click_same(count) == count
\* `lambda: setCount(count + 1)`: the value the handler gives the setter, count
\* being the value the render that made the button got from use_state.
on_click(count) == count + 1

CounterIdle ==
  /\ slot = [k \in Comps |-> Unset]
  /\ label = [k \in Comps |-> Unset]
  /\ dirty = [k \in Comps |-> FALSE]
  /\ clicks = [k \in Comps |-> 0]
  /\ stale = [k \in Comps |-> FALSE]

\* customCounter() is called: count, setCount = use_state(0); the button
\* shows `Count: {count}`.
Mount(k) ==
  /\ label[k] = Unset
  /\ LET count == use_state(slot[k], 0) IN
       /\ slot' = [slot EXCEPT ![k] = count]
       /\ label' = [label EXCEPT ![k] = count]
  /\ UNCHANGED <<dirty, clicks, stale>>
  /\ UNCHANGED <<themeVars, routeVars>>

\* A click on the button is handled: setCount(count + 1) stores the value and
\* asks for the component to be rendered again.
Click(k) ==
  /\ label[k] # Unset
  /\ clicks[k] < MaxClicks
  /\ slot' = [slot EXCEPT ![k] = <<on_click(label[k][1])>>]
  /\ dirty' = [dirty EXCEPT ![k] = TRUE]
  /\ clicks' = [clicks EXCEPT ![k] = @ + 1]
  /\ stale' = [stale EXCEPT ![k] = @ \/ dirty[k]]
  /\ UNCHANGED label
  /\ UNCHANGED <<themeVars, routeVars>>

\* The component is rendered again: use_state returns the stored value.
Rerender(k) ==
  /\ dirty[k]
  /\ label' = [label EXCEPT ![k] = use_state(slot[k], 0)]
  /\ dirty' = [dirty EXCEPT ![k] = FALSE]
  /\ UNCHANGED <<slot, clicks, stale>>
  /\ UNCHANGED <<themeVars, routeVars>>

Next ==
  \/ \E b \in Builds, t \in DOMAIN inst : Enter(b, t)
  \/ \E b \in Builds : BlockStep(b)
  \/ \E b \in Builds : Exit(b)
  \/ \E b \in Builds, e \in Exceptions : Raise(b, e)

Init == InitTheme /\ RoutesIdle /\ CounterIdle
Spec == Init /\ [][Next]_vars

NextShared ==
  \/ \E b \in SharedBuilds, t \in DOMAIN inst : Enter(b, t)
  \/ \E b \in SharedBuilds : BlockStep(b)
  \/ \E b \in SharedBuilds : Exit(b)
  \/ \E b \in SharedBuilds, e \in Exceptions : Raise(b, e)
  \/ \E t \in DOMAIN inst, f \in Fields, e \in AppendEntries : AppendTo(t, f, e)

StartShared == InitShared /\ RoutesIdle /\ CounterIdle
SpecShared == StartShared /\ [][NextShared]_vars

\* No theme is constructed.
ThemeIdle ==
  /\ ctor = <<>>
  /\ ThemeStart

NextRoutes ==
  \/ AppStart
  \/ \E f \in RouteFiles : LoadFile(f)
  \/ LoadDone

StartRoutes == InitRoutes /\ ThemeIdle /\ CounterIdle
SpecRoutes == StartRoutes /\ [][NextRoutes]_vars

NextCounter ==
  \/ \E k \in Comps : Mount(k)
  \/ \E k \in Comps : Click(k)
  \/ \E k \in Comps : Rerender(k)

StartCounter == CounterIdle /\ ThemeIdle /\ RoutesIdle
SpecCounter == StartCounter /\ [][NextCounter]_vars
\* ------------------------------------------------- properties of theme.py
Range(q) == {q[i] : i \in 1..Len(q)}
\* Where build b handed control to the wrapped block.
YieldAt(b) == CHOOSE i \in 1..Len(log[b]) : log[b][i].op = "yield"
Before(b) == SubSeq(log[b], 1, YieldAt(b) - 1)
After(b) == SubSeq(log[b], YieldAt(b) + 1, Len(log[b]))
\* The calls among a sequence of events.
Calls(q) == SelectSeq(q, LAMBDA ev : ev.op \notin {"stmt", "yield"})
\* The list a constructor call gave for parameter f, as it was at the call.
ArgContents(a, f) == IF a[f] = Absent THEN <<>> ELSE CallerContents(f)
Entries(op, q) == [i \in 1..Len(q) |-> Call(op, <<q[i]>>)]
OpOf(f) == IF f = "css" THEN "add_css" ELSE IF f = "head" THEN "add_head_html" ELSE "add_body_html"
FontSet(font) == font \notin {NoneFont, <<"">>}
\* The set-up sequence a constructor call determines.
ExpectedSetup(a) ==
  <<Call("add_css", AutofillCss), Call("add_head_html", AosLink), Call("add_body_html", AosScript)>>
    \o Entries("add_css", ArgContents(a, "css"))
    \o Entries("add_head_html", ArgContents(a, "head"))
    \o Entries("add_body_html", ArgContents(a, "body"))
    \o (IF FontSet(a.font)
        THEN <<Call("add_head_html", FontLink(a.font)), Call("add_head_html", FontStyle(a.font))>>
        ELSE <<>>)
    \o <<Colors(a.theme)>>
ExpectedClose(a) ==
  Entries("add_body_html", ArgContents(a, "body_close")) \o <<Call("run_javascript", AosInit)>>

\* C2: in every build, each set-up emission (autofill css, AOS stylesheet and
\* script, every css/head/body entry, the font tags when a font is set, the
\* colors call) is made before the yield and so before the first statement of
\* the wrapped block; and while the block has not finished, no body_close entry
\* and no AOS.init() has been emitted.
C2_SetupBeforeBlock ==
  \A b \in AllBuilds : pc[b] # "idle" =>
    LET a == ctor[of[b]]
        pre == Range(Before(b))
    IN /\ \A i \in 1..Len(log[b]) : log[b][i].op = "stmt" => i > YieldAt(b)
       /\ {Call("add_css", AutofillCss), Call("add_head_html", AosLink),
           Call("add_body_html", AosScript)} \subseteq pre
       /\ \A f \in {"css", "head", "body"} :
            \A x \in Range(ArgContents(a, f)) : Call(OpOf(f), <<x>>) \in pre
       /\ FontSet(a.font) =>
            {Call("add_head_html", FontLink(a.font)), Call("add_head_html", FontStyle(a.font))}
              \subseteq pre
       /\ \E ev \in pre : ev.op = "colors"
       /\ Call("run_javascript", AosInit) \notin pre
       /\ \A x \in Range(ArgContents(a, "body_close")) : Call("add_body_html", <<x>>) \notin pre
       /\ pc[b] = "block" => Calls(After(b)) = <<>>
W2_BlockRanAfterSetup ==
  \E b \in AllBuilds :
    /\ pc[b] = "block" /\ NStmts(b) >= 1
    /\ ctor[of[b]].body_close # Absent /\ ctor[of[b]].css # Absent
    /\ FontSet(ctor[of[b]].font)

\* C4: every build calls ui.colors exactly once, and the keyword arguments of
\* that call are exactly the pairs of the theme dictionary given to the
\* constructor.
C4_ColorsPassThrough ==
  \A b \in AllBuilds : pc[b] # "idle" =>
    LET cs == SelectSeq(log[b], LAMBDA ev : ev.op = "colors")
    IN Len(cs) = 1 /\ cs[1].kw = ctor[of[b]].theme
W4_ThreeKeyTheme ==
  \E b \in AllBuilds :
    /\ pc[b] = "done" /\ ctor[of[b]].theme = ExampleTheme
    /\ \E ev \in Range(log[b]) : ev.op = "colors" /\ Cardinality(ev.kw) = 3

\* C6: the emissions of a build before its yield are exactly: the autofill css,
\* the AOS stylesheet link, the AOS script, add_css of each css entry in list
\* order, add_head_html of each head entry in order, add_body_html of each body
\* entry in order, then the Google Fonts link and the font-family style if and
\* only if the font is set and non-empty, then colors(theme).
C6_SetupSequence ==
  \A b \in AllBuilds : pc[b] # "idle" => Before(b) = ExpectedSetup(ctor[of[b]])
W6_AllListsAndFont ==
  \E b \in AllBuilds :
    /\ pc[b] # "idle"
    /\ \A f \in {"css", "head", "body"} : ctor[of[b]][f] # Absent
    /\ ctor[of[b]].font = <<"Lato">>

\* C7: when the wrapped block ends normally, the build then emits
\* add_body_html of each body_close entry in list order, each once, and last
\* of all run_javascript('AOS.init();'), exactly once and after the AOS script
\* tag was added.
C7_CloseSequence ==
  \A b \in AllBuilds : pc[b] = "done" =>
    LET l == log[b]
        n == Len(l)
    IN /\ Calls(After(b)) = ExpectedClose(ctor[of[b]])
       /\ l[n] = Call("run_javascript", AosInit)
       /\ Cardinality({i \in 1..n : l[i].op = "run_javascript"}) = 1
       /\ \A i \in 1..n : l[i].op = "stmt" => i < n - Len(ArgContents(ctor[of[b]], "body_close"))
       /\ \E i \in 1..(n - 1) : l[i] = Call("add_body_html", AosScript)
W7_ClosedWithEntries ==
  \E b \in AllBuilds :
    pc[b] = "done" /\ ctor[of[b]].body_close # Absent /\ NStmts(b) >= 1

\* C8: when the wrapped block raises, the caller of the with statement gets
\* that same exception, nothing is emitted after the yield (no body_close
\* entry, no AOS.init()), and the set-up emissions made before the block are
\* all still there.
C8_RaisePropagates ==
  \A b \in AllBuilds : pc[b] = "raised" =>
    /\ exc[b] = thrown[b] /\ exc[b] \in Exceptions
    /\ Calls(After(b)) = <<>>
    /\ Before(b) = ExpectedSetup(ctor[of[b]])
W8_RaisedAfterStatement ==
  \E b \in AllBuilds :
    pc[b] = "raised" /\ NStmts(b) >= 1 /\ ctor[of[b]].body_close # Absent

\* C9: build leaves every field of its ThemeBuild as the constructor set it,
\* and any two builds of one object, however interleaved, emit the same
\* sequence: the one the constructor arguments determine.
C9_FieldsAndRepeatability ==
  /\ \A t \in DOMAIN inst : inst[t] = New(t, ctor[t])
  /\ \A b \in AllBuilds : pc[b] # "idle" =>
       /\ Before(b) = ExpectedSetup(ctor[of[b]])
       /\ pc[b] = "done" => Calls(After(b)) = ExpectedClose(ctor[of[b]])
  /\ \A b1 \in AllBuilds, b2 \in AllBuilds :
       (pc[b1] # "idle" /\ pc[b2] # "idle" /\ of[b1] = of[b2]) =>
         /\ Before(b1) = Before(b2)
         /\ (pc[b1] = "done" /\ pc[b2] = "done") => Calls(log[b1]) = Calls(log[b2])
\* Build b2 began and ended while build b1 of the same object was in its block.
W9_InterleavedBuilds ==
  \E b1 \in AllBuilds, b2 \in AllBuilds :
    /\ b1 < b2 /\ of[b1] = of[b2]
    /\ pc[b1] = "block" /\ pc[b2] = "done"
    /\ ctor[of[b1]].css # Absent /\ ctor[of[b1]].body_close # Absent
    /\ NStmts(b2) >= 1
\* C10: the lists are stored without a copy and a left-out list argument is one
\* list object shared by all ThemeBuild objects: once an entry has been appended
\* to the css (head, body, body_close) list of an object constructed without
\* that argument, every later build of any other object constructed without
\* that argument emits the entry too (a body_close entry when the block ends).
C10_SharedDefaults ==
  /\ \A t \in DOMAIN inst, f \in Fields :
       inst[t][f] = (IF ctor[t][f] = Absent THEN DefaultList(f) ELSE ctor[t][f])
  /\ \A b \in AllBuilds : pc[b] # "idle" =>
       \A ap \in seen[b] :
         LET t == ap[1]
             f == ap[2]
             e == ap[3]
         IN (ctor[t][f] = Absent /\ ctor[of[b]][f] = Absent) =>
              IF f = "body_close"
              THEN pc[b] = "done" => Call("add_body_html", <<e>>) \in Range(After(b))
              ELSE Call(OpOf(f), <<e>>) \in Range(Before(b))
W10_OtherObjectEmits ==
  \E b \in AllBuilds : \E ap \in seen[b] :
    /\ pc[b] # "idle" /\ ap[1] # of[b] /\ ap[2] = "css"
    /\ ctor[ap[1]].css = Absent /\ ctor[of[b]].css = Absent
    /\ Call("add_css", <<ap[3]>>) \in Range(Before(b))
\* ------------------------------------ properties of the package and examples
\* C5: every name the example application and the example route files import
\* from the package is bound by the package, so no example module raises
\* ImportError.
C5_ExampleImportsSucceed ==
  \A x \in failed : x[1][1] \notin {"example/main.py", "example/routes"}

\* C1: every example route file the loader has executed is registered at the
\* path of the convention (about.py at /about, counter.py at /counter, index.py
\* at its explicit path /), and once the example's routes directory is loaded
\* every navigation target of the home page is a registered path.
C1_ExampleRoutesRegistered ==
  /\ \A f \in visited \cap ExampleFiles :
       [path |-> (IF f = IndexPy THEN <<>> ELSE f.rel), func |-> f.func] \in registered
  /\ (rpc = "done" /\ ExampleFiles \subseteq dir) =>
       NavTargets \subseteq {r.path : r \in registered}

====
